---------------------------- MODULE Spec2Model ----------------------------
(***************************************************************************)
(* Model of src/protocols/http.ts of mcp-bravesearch: the analytics store  *)
(* (in-memory counters, recent tool calls, JSON snapshot on disk), the     *)
(* periodic/shutdown save scheduler, the session-transport registry and    *)
(* the /mcp request dispatcher.                                            *)
(*                                                                         *)
(* Time is counted in minutes since an arbitrary origin; an ISO timestamp  *)
(* is represented by that number, and the hour bucket of a timestamp       *)
(* (toISOString().substring(0, 13)) by the number divided by 60.           *)
(* Node runs every handler to its first await without interleaving, so     *)
(* each action below is one such run-to-completion segment.                *)
(***************************************************************************)
EXTENDS Integers, Sequences, FiniteSets, TLC

VARIABLES
    now,          \* wall clock (minutes)
    proc,         \* "running" | "cancelled" | "flushed" | "exited" | "killed"
    analytics,    \* the in-memory Analytics object (http.ts:44)
    disk,         \* content of ANALYTICS_FILE: Absent, Corrupt or a JSON document
    env,          \* process.env: BRAVE_API_KEY and ANALYTICS_IMPORT_KEY
    timerActive,  \* saveInterval is armed (http.ts:170)
    transports,   \* the session registry: sessionId -> handler id (http.ts:194)
    handlers,     \* live StreamableHTTPServerTransport objects: id -> record
    inflight,     \* /mcp requests suspended at an await
    apiKey,       \* the process-wide key set by setApiKey
    resp,         \* the last response written
    nextId,       \* source of fresh object identities and UUIDs
    calls,        \* history: the tool calls recorded in the snapshot's lineage, oldest first
    savedCalls,   \* history: `calls` as of the document now on disk
    nTracked,     \* history: number of trackRequest calls in this process
    pristine,     \* history: this process started without a durable file and merged no import
    finalSave,    \* history: how gracefulShutdown's saveAnalytics ended, "none" before it
    observe       \* whether this run records the responses in `resp`

vars == <<now, proc, analytics, disk, env, timerActive, transports, handlers, inflight,
          apiKey, resp, nextId, calls, savedCalls, nTracked, pristine, finalSave, observe>>

-----------------------------------------------------------------------------
(* Program constants *)

MAX_RECENT_CALLS == 100

HOUR == 60

(* Bounds of the model *)

MaxCount == 2

MaxHours == 1

MaxInflight == 1

MaxRecentRun == 102

MaxMcp == 4

-----------------------------------------------------------------------------
(* Values *)

Absent == [kind |-> "absent", doc |-> <<>>]

Corrupt == [kind |-> "corrupt", doc |-> <<>>]

Document(doc) == [kind |-> "document", doc |-> doc]

NoSession == <<>>

\* variant: the generator returns the same id every time
UuidRepeated(n) == <<"uuid", 1>>

\* a session id: the n-th value drawn from randomUUID
Uuid(n) == <<"uuid", n>>

NoTime == -1

EmptyMap == <<>>

\* (m[k] || 0) + d, written back under k
Add(m, k, d) ==
    IF k \in DOMAIN m THEN [m EXCEPT ![k] = @ + d] ELSE m @@ (k :> d)

\* obj[k] = (obj[k] || 0) + d on an object literal whose keys come from the
\* request: under the key __proto__ the read gives Object.prototype, and the
\* write reaches the inherited setter, which ignores a value that is not an
\* object, so that no property is created
AddOwn(m, k, d) == IF k = "__proto__" THEN m ELSE Add(m, k, d)

Get(m, k) == IF k \in DOMAIN m THEN m[k] ELSE 0

Min(a, b) == IF a <= b THEN a ELSE b

Reverse(s) == [i \in 1..Len(s) |-> s[Len(s) + 1 - i]]

RECURSIVE SumSet(_, _)
SumSet(m, ks) ==
    IF ks = {} THEN 0
    ELSE LET k == CHOOSE x \in ks : TRUE IN m[k] + SumSet(m, ks \ {k})

SumMap(m) == SumSet(m, DOMAIN m)

-----------------------------------------------------------------------------
(* The Analytics object *)

EmptyAnalytics(t) ==
    [ serverStartTime    |-> t,
      totalRequests      |-> 0,
      totalToolCalls     |-> 0,
      requestsByMethod   |-> EmptyMap,
      requestsByEndpoint |-> EmptyMap,
      toolCalls          |-> EmptyMap,
      recentToolCalls    |-> <<>>,
      clientsByIp        |-> EmptyMap,
      clientsByUserAgent |-> EmptyMap,
      hourlyRequests     |-> EmptyMap ]

\* x-forwarded-for's first element, trimmed, else req.ip, else the socket's
\* address, else 'unknown'; "" stands for an absent or empty value
ClientIp(req) ==
    IF req.xff # <<>> /\ req.xff[1] # "" THEN req.xff[1]
    ELSE IF req.ip # "" THEN req.ip
    ELSE IF req.remote # "" THEN req.remote
    ELSE "unknown"

\* (user-agent || 'unknown').substring(0, 50); the user agents of the model
\* are shorter than 50 characters
UserAgent(req) == IF req.ua # "" THEN req.ua ELSE "unknown"

HourOf(t) == t \div HOUR

\* variant: the total is not counted
TrackRequestWithoutTotal(a, req, endpoint, t) ==
    [a EXCEPT
        !.requestsByMethod   = AddOwn(@, req.method, 1),
        !.requestsByEndpoint = AddOwn(@, endpoint, 1),
        !.clientsByIp        = AddOwn(@, ClientIp(req), 1),
        !.clientsByUserAgent = AddOwn(@, UserAgent(req), 1),
        !.hourlyRequests     = Add(@, HourOf(t), 1)]

TrackRequest(a, req, endpoint, t) ==
    [a EXCEPT
        !.totalRequests      = @ + 1,
        !.requestsByMethod   = AddOwn(@, req.method, 1),
        !.requestsByEndpoint = AddOwn(@, endpoint, 1),
        !.clientsByIp        = AddOwn(@, ClientIp(req), 1),
        !.clientsByUserAgent = AddOwn(@, UserAgent(req), 1),
        !.hourlyRequests     = Add(@, HourOf(t), 1)]

ToolCallRecord(toolName, req, t) ==
    [tool |-> toolName, timestamp |-> t, clientIp |-> ClientIp(req),
     userAgent |-> UserAgent(req)]

\* variant: push instead of unshift, shift instead of pop
PushBack(s, e) ==
    LET u == Append(s, e)
    IN  IF Len(u) > MAX_RECENT_CALLS THEN Tail(u) ELSE u

\* variant: the list is never shortened
UnshiftWithoutPop(s, e) == <<e>> \o s

\* variant: shift instead of pop, which removes the entry just added
UnshiftThenShift(s, e) ==
    LET u == <<e>> \o s
    IN  IF Len(u) > MAX_RECENT_CALLS THEN Tail(u) ELSE u

\* unshift, then pop once when longer than MAX_RECENT_CALLS
Unshift(s, e) ==
    LET u == <<e>> \o s
    IN  IF Len(u) > MAX_RECENT_CALLS THEN SubSeq(u, 1, Len(u) - 1) ELSE u

TrackToolCall(a, toolName, req, t) ==
    [a EXCEPT
        !.totalToolCalls  = @ + 1,
        !.toolCalls       = AddOwn(@, toolName, 1),
        !.recentToolCalls = Unshift(@, ToolCallRecord(toolName, req, t))]

-----------------------------------------------------------------------------
(* Persistence: JSON.stringify / JSON.parse of the snapshot.                *)
(* A JSON object is the list of its <<key, value>> members in insertion     *)
(* order; a counter mapping is the set of its <<key, count>> members; a     *)
(* recent call is the tuple of its four member values.                      *)

StringifyMap(m) == {<<k, m[k]>> : k \in DOMAIN m}

StringifyCall(c) == <<c.tool, c.timestamp, c.clientIp, c.userAgent>>

Stringify(a) ==
    << <<"serverStartTime", a.serverStartTime>>,
       <<"totalRequests", a.totalRequests>>,
       <<"totalToolCalls", a.totalToolCalls>>,
       <<"requestsByMethod", StringifyMap(a.requestsByMethod)>>,
       <<"requestsByEndpoint", StringifyMap(a.requestsByEndpoint)>>,
       <<"toolCalls", StringifyMap(a.toolCalls)>>,
       <<"recentToolCalls", [i \in 1..Len(a.recentToolCalls) |-> StringifyCall(a.recentToolCalls[i])]>>,
       <<"clientsByIp", StringifyMap(a.clientsByIp)>>,
       <<"clientsByUserAgent", StringifyMap(a.clientsByUserAgent)>>,
       <<"hourlyRequests", StringifyMap(a.hourlyRequests)>> >>

Member(doc, key) == doc[CHOOSE i \in 1..Len(doc) : doc[i][1] = key][2]

ParseMap(ps) == [k \in {p[1] : p \in ps} |-> (CHOOSE p \in ps : p[1] = k)[2]]

ParseCall(c) == [tool |-> c[1], timestamp |-> c[2], clientIp |-> c[3], userAgent |-> c[4]]

Parse(doc) ==
    [ serverStartTime    |-> Member(doc, "serverStartTime"),
      totalRequests      |-> Member(doc, "totalRequests"),
      totalToolCalls     |-> Member(doc, "totalToolCalls"),
      requestsByMethod   |-> ParseMap(Member(doc, "requestsByMethod")),
      requestsByEndpoint |-> ParseMap(Member(doc, "requestsByEndpoint")),
      toolCalls          |-> ParseMap(Member(doc, "toolCalls")),
      recentToolCalls    |-> LET cs == Member(doc, "recentToolCalls")
                             IN  [i \in 1..Len(cs) |-> ParseCall(cs[i])],
      clientsByIp        |-> ParseMap(Member(doc, "clientsByIp")),
      clientsByUserAgent |-> ParseMap(Member(doc, "clientsByUserAgent")),
      hourlyRequests     |-> ParseMap(Member(doc, "hourlyRequests")) ]

IsDocument(d) == d.kind = "document"

\* variant: a failed load leaves the start time unset
LoadAnalyticsClearingStart(current, d, ioOk, t) ==
    IF ioOk /\ IsDocument(d)
    THEN [Parse(d.doc) EXCEPT !.serverStartTime = IF @ = NoTime THEN t ELSE @]
    ELSE [current EXCEPT !.serverStartTime = NoTime]

\* variant: the start time is reset on every load
LoadAnalyticsResettingStart(current, d, ioOk, t) ==
    IF ioOk /\ IsDocument(d)
    THEN [Parse(d.doc) EXCEPT !.serverStartTime = t]
    ELSE current

\* loadAnalytics: `current` is the freshly constructed object; it is replaced
\* only when the directory is usable, the file exists, is read and parses.
\* ioOk = FALSE stands for ensureDataDir or readFileSync throwing.
LoadAnalytics(current, d, ioOk, t) ==
    IF ioOk /\ IsDocument(d)
    THEN LET loaded == Parse(d.doc)
         IN  [loaded EXCEPT !.serverStartTime = IF @ = NoTime THEN t ELSE @]
    ELSE current

\* saveAnalytics: the file after the call. "ok": the whole document is
\* written; "fail": mkdir or open threw, the file is untouched; "partial":
\* the file was truncated for writing and the write threw.
SaveAnalytics(d, a, outcome) ==
    CASE outcome = "ok"      -> Document(Stringify(a))
      [] outcome = "fail"    -> d
      [] outcome = "partial" -> Corrupt

SaveOutcomes == {"ok", "fail", "partial"}

\* getUptime
GetUptime(a, t) ==
    LET diff    == t - a.serverStartTime
        days    == diff \div (HOUR * 24)
        hours   == (diff % (HOUR * 24)) \div HOUR
        minutes == diff % HOUR
    IN  IF days > 0 THEN <<days, "d", hours, "h", minutes, "m">>
        ELSE IF hours > 0 THEN <<hours, "h", minutes, "m">>
        ELSE <<minutes, "m">>

-----------------------------------------------------------------------------
(* Session registry *)

\* ListToolsRequestSchema.safeParse(body).success
IsListToolsRequest(body) ==
    body.present /\ body.method = "tools/list" /\ body.paramsOk

\* req.body && req.body.method === 'tools/call' && req.body.params?.name
\* variant: any body with a name in its parameters counts as a tool call
IsToolCallAnyMethod(body) ==
    body.present /\ body.name # ""

IsToolCall(body) ==
    body.present /\ body.method = "tools/call" /\ body.name # ""

NewHandler(stateful) ==
    [stateful |-> stateful, connected |-> FALSE, initialized |-> FALSE,
     sessionId |-> NoSession]

\* variant: the registry is never consulted
GetTransportAlwaysNew(req, reg, fresh) ==
    IF req.hdr = NoSession /\ IsListToolsRequest(req.body)
    THEN [branch |-> 2, handler |-> fresh, created |-> TRUE, stateful |-> FALSE]
    ELSE [branch |-> 3, handler |-> fresh, created |-> TRUE, stateful |-> TRUE]

\* variant: no special case for the discovery request
GetTransportWithoutDiscovery(req, reg, fresh) ==
    IF req.hdr # NoSession /\ req.hdr \in DOMAIN reg
    THEN [branch |-> 1, handler |-> reg[req.hdr], created |-> FALSE, stateful |-> TRUE]
    ELSE [branch |-> 3, handler |-> fresh, created |-> TRUE, stateful |-> TRUE]

\* variant: a discovery request is served statelessly whatever its header
GetTransportDiscoveryAnyHeader(req, reg, fresh) ==
    IF req.hdr # NoSession /\ req.hdr \in DOMAIN reg
    THEN [branch |-> 1, handler |-> reg[req.hdr], created |-> FALSE, stateful |-> TRUE]
    ELSE IF IsListToolsRequest(req.body)
    THEN [branch |-> 2, handler |-> fresh, created |-> TRUE, stateful |-> FALSE]
    ELSE [branch |-> 3, handler |-> fresh, created |-> TRUE, stateful |-> TRUE]

\* getTransport up to its first await: which branch is taken, the handler it
\* will return, and whether that handler was constructed by this call.
\* `fresh` is the identity of the object a constructor call would create.
GetTransport(req, reg, fresh) ==
    IF req.hdr # NoSession /\ req.hdr \in DOMAIN reg
    THEN [branch |-> 1, handler |-> reg[req.hdr], created |-> FALSE, stateful |-> TRUE]
    ELSE IF req.hdr = NoSession /\ IsListToolsRequest(req.body)
    THEN [branch |-> 2, handler |-> fresh, created |-> TRUE, stateful |-> FALSE]
    ELSE [branch |-> 3, handler |-> fresh, created |-> TRUE, stateful |-> TRUE]

\* variant: the callback keeps the newest pair only
OnSessionInitializedReplacing(reg, sessionId, h) == sessionId :> h

\* variant: the callback does not store the pair
OnSessionInitializedForgetting(reg, sessionId, h) == reg

\* onsessioninitialized: transports.set(sessionId, transport)
OnSessionInitialized(reg, sessionId, h) ==
    IF sessionId \in DOMAIN reg THEN [reg EXCEPT ![sessionId] = h]
    ELSE reg @@ (sessionId :> h)

-----------------------------------------------------------------------------
(* API key extraction.  A string is the sequence of its tokens, <<>> the    *)
(* empty (or absent) string.                                                *)

RECURSIVE RemoveFirst(_, _)
RemoveFirst(s, tok) ==
    IF s = <<>> THEN <<>>
    ELSE IF Head(s) = tok THEN Tail(s)
    ELSE <<Head(s)>> \o RemoveFirst(Tail(s), tok)

\* variant: the headers are looked at before the query parameters
RequestApiKeyHeadersFirst(req, e) ==
    IF req.xApiKey # <<>> THEN req.xApiKey
    ELSE IF RemoveFirst(req.auth, "Bearer ") # <<>> THEN RemoveFirst(req.auth, "Bearer ")
    ELSE IF req.qApiKey # <<>> THEN req.qApiKey
    ELSE IF req.qApi_key # <<>> THEN req.qApi_key
    ELSE e.braveKey

\* query apiKey || query api_key || x-api-key || authorization minus
\* 'Bearer ' || BRAVE_API_KEY || ''
RequestApiKey(req, e) ==
    IF req.qApiKey # <<>> THEN req.qApiKey
    ELSE IF req.qApi_key # <<>> THEN req.qApi_key
    ELSE IF req.xApiKey # <<>> THEN req.xApiKey
    ELSE IF RemoveFirst(req.auth, "Bearer ") # <<>> THEN RemoveFirst(req.auth, "Bearer ")
    ELSE e.braveKey

\* setApiKey of ../config.js: stores the key
SetApiKey(old, k) == k

\* extractApiKey: the stored key after the middleware ran
\* variant: setApiKey is called with whatever was found, the empty key too
ExtractApiKeyAlwaysSetting(old, req, e) == SetApiKey(old, RequestApiKey(req, e))

ExtractApiKey(old, req, e) ==
    IF RequestApiKey(req, e) # <<>> THEN SetApiKey(old, RequestApiKey(req, e)) ELSE old

-----------------------------------------------------------------------------
(* Import (merge) and summary *)

\* variant: the imported count replaces the counter
RECURSIVE MergeKeysOverwriting(_, _, _)
MergeKeysOverwriting(m, delta, ks) ==
    IF ks = {} THEN m
    ELSE LET k == CHOOSE x \in ks : TRUE
         IN  MergeKeysOverwriting(IF k \in DOMAIN m THEN [m EXCEPT ![k] = delta[k]]
                                  ELSE m @@ (k :> delta[k]),
                                  delta, ks \ {k})

\* for (const [k, count] of Object.entries(delta)) m[k] = (m[k] || 0) + count
RECURSIVE MergeKeys(_, _, _)
MergeKeys(m, delta, ks) ==
    IF ks = {} THEN m
    ELSE LET k == CHOOSE x \in ks : TRUE
         IN  MergeKeys(AddOwn(m, k, delta[k]), delta, ks \ {k})

\* variant: a body without the section empties the counter
MergeMapRequiringSection(m, section) ==
    IF section.present THEN MergeKeys(m, section.counts, DOMAIN section.counts) ELSE EmptyMap

MergeMap(m, section) ==
    IF section.present THEN MergeKeys(m, section.counts, DOMAIN section.counts) ELSE m

\* variant: the summary totals replace the totals
MergeImportReplacingTotals(a, data) ==
    [a EXCEPT
        !.totalRequests      = IF data.summary.present THEN data.summary.totalRequests ELSE @,
        !.totalToolCalls     = IF data.summary.present THEN data.summary.totalToolCalls ELSE @,
        !.requestsByMethod   = MergeMap(@, data.byMethod),
        !.requestsByEndpoint = MergeMap(@, data.byEndpoint),
        !.toolCalls          = MergeMap(@, data.byTool)]

\* the body of the try block of POST /analytics/import, before saveAnalytics
\* variant: the merge starts the list of recent calls afresh
MergeImportDroppingRecent(a, data) ==
    [a EXCEPT
        !.totalRequests      = IF data.summary.present THEN @ + data.summary.totalRequests ELSE @,
        !.totalToolCalls     = IF data.summary.present THEN @ + data.summary.totalToolCalls ELSE @,
        !.requestsByMethod   = MergeMap(@, data.byMethod),
        !.requestsByEndpoint = MergeMap(@, data.byEndpoint),
        !.toolCalls          = MergeMap(@, data.byTool),
        !.recentToolCalls    = <<>>]

MergeImport(a, data) ==
    [a EXCEPT
        !.totalRequests      = IF data.summary.present THEN @ + data.summary.totalRequests ELSE @,
        !.totalToolCalls     = IF data.summary.present THEN @ + data.summary.totalToolCalls ELSE @,
        !.requestsByMethod   = MergeMap(@, data.byMethod),
        !.requestsByEndpoint = MergeMap(@, data.byEndpoint),
        !.toolCalls          = MergeMap(@, data.byTool)]

\* entries sorted by descending count
RECURSIVE SortByCountDesc(_, _)
SortByCountDesc(m, ks) ==
    IF ks = {} THEN <<>>
    ELSE LET k == CHOOSE x \in ks : \A y \in ks : m[x] >= m[y]
         IN  <<(<<k, m[k]>>)>> \o SortByCountDesc(m, ks \ {k})

\* keys sorted descending
RECURSIVE SortKeysDesc(_)
SortKeysDesc(ks) ==
    IF ks = {} THEN <<>>
    ELSE LET k == CHOOSE x \in ks : \A y \in ks : x >= y
         IN  <<k>> \o SortKeysDesc(ks \ {k})

LAST_HOURS == 24

RECENT_IN_SUMMARY == 20

RECENT_IN_TOOLS == 50

\* property names that are array indices (canonical numeric strings), in
\* ascending numeric order
IndexKeys == <<"0", "1", "2", "3", "4", "5", "6", "7", "8", "9">>

IsArrayIndex(k) == \E p \in 1..Len(IndexKeys) : IndexKeys[p] = k

RECURSIVE IndexEntries(_, _)
IndexEntries(entries, p) ==
    IF p > Len(IndexKeys) THEN <<>>
    ELSE SelectSeq(entries, LAMBDA e : e[1] = IndexKeys[p]) \o IndexEntries(entries, p + 1)

\* entries.reduce((acc, [k, v]) => ({ ...acc, [k]: v }), {}) as res.json
\* lists it: an object's array-index keys come first, in ascending numeric
\* order, then its other keys in insertion order
ObjectEntries(entries) ==
    IndexEntries(entries, 1) \o SelectSeq(entries, LAMBDA e : ~IsArrayIndex(e[1]))

Last24Hours(m) ==
    LET desc == SortKeysDesc(DOMAIN m)
        kept == Reverse(SubSeq(desc, 1, Min(Len(desc), LAST_HOURS)))
    IN  [i \in 1..Len(kept) |-> <<kept[i], m[kept[i]]>>]

\* the JSON body of GET /analytics
Summary(a, t) ==
    [ uptime          |-> GetUptime(a, t),
      serverStartTime |-> a.serverStartTime,
      totalRequests   |-> a.totalRequests,
      totalToolCalls  |-> a.totalToolCalls,
      uniqueClients   |-> Cardinality(DOMAIN a.clientsByIp),
      byMethod        |-> a.requestsByMethod,
      byEndpoint      |-> a.requestsByEndpoint,
      byTool          |-> ObjectEntries(SortByCountDesc(a.toolCalls, DOMAIN a.toolCalls)),
      hourlyRequests  |-> Last24Hours(a.hourlyRequests),
      recentToolCalls |-> SubSeq(a.recentToolCalls, 1, Min(Len(a.recentToolCalls), RECENT_IN_SUMMARY)) ]

\* the JSON body of GET /analytics/tools
ToolsView(a) ==
    [ totalToolCalls |-> a.totalToolCalls,
      tools          |-> SortByCountDesc(a.toolCalls, DOMAIN a.toolCalls),
      recentCalls    |-> SubSeq(a.recentToolCalls, 1, Min(Len(a.recentToolCalls), RECENT_IN_TOOLS)) ]

GenericServerError == [id |-> "null", code |-> -32603, message |-> "Internal server error"]

\* something the protocol handler wrote to res: a complete answer
\* ("handled") or the beginning of one ("partial")
Written(what) == [id |-> "request", code |-> 0, message |-> what]

\* variant: the catch block answers without looking at res.headersSent
CatchBlockAlwaysWriting(written) == Append(written, GenericServerError)

\* the catch block of /mcp after console.error: `written` is what went to
\* res so far; res.headersSent is true exactly when it is not empty
CatchBlock(written) == IF written = <<>> THEN <<GenericServerError>> ELSE written

\* what the /mcp dispatcher did for one request: whether it caught (and
\* logged) an error, and everything that was written to res
Dispatched(thrown, written) ==
    [logged |-> thrown, writes |-> IF thrown THEN CatchBlock(written) ELSE written]

Response(ep, status, body) == [ep |-> ep, status |-> status, body |-> body]

NoResponse == Response("", 0, "")

-----------------------------------------------------------------------------
(* The protocol handler (StreamableHTTPServerTransport.handleRequest) as    *)
(* far as the callbacks passed at http.ts:219-224 are concerned: a          *)
(* session-generating handler that receives the initialization request      *)
(* draws a session id from sessionIdGenerator and calls                     *)
(* onsessioninitialized with it; nothing else touches the registry.         *)

\* variant: a handler that is initialized accepts another initialize request
HandleRequestReinitializing(h, hdr, body, uuid) ==
    IF ~h.stateful
    THEN [status |-> 200, handler |-> h, initialized |-> FALSE]
    ELSE IF body.present /\ body.method = "initialize"
    THEN [status |-> 200,
          handler |-> [h EXCEPT !.initialized = TRUE, !.sessionId = uuid],
          initialized |-> TRUE]
    ELSE IF ~h.initialized
    THEN [status |-> 400, handler |-> h, initialized |-> FALSE]
    ELSE IF hdr # h.sessionId
    THEN [status |-> 404, handler |-> h, initialized |-> FALSE]
    ELSE [status |-> 200, handler |-> h, initialized |-> FALSE]

HandleRequest(h, hdr, body, uuid) ==
    IF ~h.stateful
    THEN [status |-> 200, handler |-> h, initialized |-> FALSE]
    ELSE IF body.present /\ body.method = "initialize"
    THEN IF h.initialized
         THEN [status |-> 400, handler |-> h, initialized |-> FALSE]
         ELSE [status |-> 200,
               handler |-> [h EXCEPT !.initialized = TRUE, !.sessionId = uuid],
               initialized |-> TRUE]
    ELSE IF ~h.initialized
    THEN [status |-> 400, handler |-> h, initialized |-> FALSE]
    ELSE IF hdr # h.sessionId
    THEN [status |-> 404, handler |-> h, initialized |-> FALSE]
    ELSE [status |-> 200, handler |-> h, initialized |-> FALSE]

Range(f) == {f[x] : x \in DOMAIN f}

\* the handler objects still referenced by the registry or a suspended request
Live(hs, reg, reqs) ==
    [id \in {i \in DOMAIN hs : i \in Range(reg) \/ \E r \in reqs : r.handler = i} |-> hs[id]]

-----------------------------------------------------------------------------
(* Actions *)

\* res.json / res.send: the response is recorded in runs that observe it
Respond(r) == resp' = IF observe THEN r ELSE NoResponse

\* a route that only counts the request and answers
TrackedRequest(req, ep, t) ==
    /\ proc = "running"
    /\ now' = t
    /\ analytics' = TrackRequest(analytics, req, ep, t)
    /\ nTracked' = nTracked + 1
    /\ UNCHANGED <<proc, disk, env, timerActive, transports, handlers, inflight,
                   apiKey, nextId, calls, savedCalls, pristine, finalSave, observe>>

Health(req, t) ==
    /\ req.method = "GET"
    /\ TrackedRequest(req, "/health", t)
    /\ Respond(Response("/health", 200, "healthy"))

Root(req, t) ==
    /\ req.method = "GET"
    /\ TrackedRequest(req, "/", t)
    /\ Respond(Response("/", 200, "info"))

Dashboard(req, t) ==
    /\ req.method = "GET"
    /\ TrackedRequest(req, "/analytics/dashboard", t)
    /\ Respond(Response("/analytics/dashboard", 200, "html"))

Ping(req, t) ==
    /\ TrackedRequest(req, "/ping", t)
    /\ Respond(Response("/ping", 200, "pong"))

\* variant: the summary is computed before the request is counted
AnalyticsGetBeforeTracking(req, t) ==
    /\ req.method = "GET"
    /\ TrackedRequest(req, "/analytics", t)
    /\ Respond(Response("/analytics", 200, Summary(analytics, t)))

AnalyticsGet(req, t) ==
    /\ req.method = "GET"
    /\ TrackedRequest(req, "/analytics", t)
    /\ Respond(Response("/analytics", 200, Summary(analytics', t)))

AnalyticsTools(req, t) ==
    /\ req.method = "GET"
    /\ TrackedRequest(req, "/analytics/tools", t)
    /\ Respond(Response("/analytics/tools", 200, ToolsView(analytics')))

\* variant: the key is compared after the merge and the save
ImportRouteMergingFirst(a, d, e, key, data, outcome) ==
    IF ~data.present
    THEN [status |-> 400,
          body |-> [error |-> "Failed to import analytics", details |-> "TypeError"],
          analytics |-> a, disk |-> d]
    ELSE LET m == MergeImport(a, data)
         IN  IF e.importKey # "" /\ key # e.importKey
             THEN [status |-> 403, body |-> "Invalid import key", analytics |-> m,
                   disk |-> SaveAnalytics(d, m, outcome)]
             ELSE [status |-> 200, body |-> <<m.totalRequests, m.totalToolCalls>>,
                   analytics |-> m, disk |-> SaveAnalytics(d, m, outcome)]

\* the handler of POST /analytics/import on snapshot a and file d: the
\* answer and what it leaves in memory and on disk
ImportRoute(a, d, e, key, data, outcome) ==
    IF e.importKey # "" /\ key # e.importKey
    THEN [status |-> 403, body |-> "Invalid import key", analytics |-> a, disk |-> d]
    ELSE IF ~data.present
    THEN [status |-> 400,
          body |-> [error |-> "Failed to import analytics", details |-> "TypeError"],
          analytics |-> a, disk |-> d]
    ELSE LET m == MergeImport(a, data)
         IN  [status |-> 200, body |-> <<m.totalRequests, m.totalToolCalls>>,
              analytics |-> m, disk |-> SaveAnalytics(d, m, outcome)]

\* variant: the import request is counted like the requests to other routes
AnalyticsImportTracked(key, data, outcome, t) ==
    /\ proc = "running"
    /\ now' = t
    /\ LET req == [method |-> "POST", xff |-> <<>>, ip |-> "", remote |-> "", ua |-> ""]
           r == ImportRoute(TrackRequest(analytics, req, "/analytics/import", t),
                            disk, env, key, data, outcome)
       IN  /\ analytics' = r.analytics
           /\ disk' = r.disk
           /\ savedCalls' = IF r.status = 200 /\ outcome = "ok" THEN calls ELSE savedCalls
           /\ pristine' = (pristine /\ r.status # 200)
           /\ Respond(Response("/analytics/import", r.status, r.body))
    /\ UNCHANGED <<proc, env, timerActive, transports, handlers, inflight, apiKey,
                   nextId, calls, nTracked, finalSave, observe>>

\* POST /analytics/import
AnalyticsImport(key, data, outcome, t) ==
    /\ proc = "running"
    /\ now' = t
    /\ LET r == ImportRoute(analytics, disk, env, key, data, outcome)
       IN  /\ analytics' = r.analytics
           /\ disk' = r.disk
           /\ savedCalls' = IF r.status = 200 /\ outcome = "ok" THEN calls ELSE savedCalls
           /\ pristine' = (pristine /\ r.status # 200)
           /\ Respond(Response("/analytics/import", r.status, r.body))
    /\ UNCHANGED <<proc, env, timerActive, transports, handlers, inflight, apiKey,
                   nextId, calls, nTracked, finalSave, observe>>

\* app.all('/mcp'): extractApiKey, trackRequest, trackToolCall, and
\* getTransport up to the first await
McpArrive(req, t) ==
    LET a1 == TrackRequest(analytics, req, "/mcp", t)
        a2 == IF IsToolCall(req.body) THEN TrackToolCall(a1, req.body.name, req, t) ELSE a1
        g  == GetTransport(req, transports, nextId)
    IN  /\ proc = "running"
        /\ now' = t
        /\ apiKey' = ExtractApiKey(apiKey, req, env)
        /\ analytics' = a2
        /\ nTracked' = nTracked + 1
        /\ calls' = IF IsToolCall(req.body)
                    THEN Append(calls, [tool |-> req.body.name, timestamp |-> t,
                                        clientIp |-> ClientIp(req), userAgent |-> UserAgent(req)])
                    ELSE calls
        /\ handlers' = IF g.created THEN handlers @@ (g.handler :> NewHandler(g.stateful))
                       ELSE handlers
        /\ inflight' = inflight \cup
                         {[id |-> nextId, hdr |-> req.hdr, body |-> req.body, handler |-> g.handler,
                           branch |-> g.branch, supplied |-> RequestApiKey(req, env),
                           pc |-> IF g.created THEN "connecting" ELSE "handling"]}
        /\ nextId' = nextId + 1
        /\ UNCHANGED <<proc, disk, env, timerActive, transports, resp, savedCalls,
                       pristine, finalSave, observe>>

\* variant: the handler is returned without waiting for connect
McpConnectWithoutAwait(r, ok) ==
    /\ proc = "running"
    /\ r \in inflight /\ r.pc = "connecting"
    /\ inflight' = (inflight \ {r}) \cup {[r EXCEPT !.pc = "handling"]}
    /\ UNCHANGED <<now, proc, analytics, disk, env, timerActive, transports, handlers, apiKey,
                   resp, nextId, calls, savedCalls, nTracked, pristine, finalSave, observe>>

\* variant: a request whose resolution fails is taken out of the count
McpConnectUncounting(r, ok) ==
    /\ proc = "running"
    /\ r \in inflight /\ r.pc = "connecting"
    /\ IF ok
       THEN /\ handlers' = [handlers EXCEPT ![r.handler].connected = TRUE]
            /\ inflight' = (inflight \ {r}) \cup {[r EXCEPT !.pc = "handling"]}
            /\ UNCHANGED <<resp, analytics>>
       ELSE /\ inflight' = inflight \ {r}
            /\ handlers' = Live(handlers, transports, inflight')
            /\ analytics' = [analytics EXCEPT !.totalRequests = @ - 1]
            /\ Respond(Response("/mcp", 500, Dispatched(TRUE, <<>>)))
    /\ UNCHANGED <<now, proc, disk, env, timerActive, transports, apiKey,
                   nextId, calls, savedCalls, nTracked, pristine, finalSave, observe>>

\* mcpServer.connect(transport) settles; on rejection the catch block answers
McpConnect(r, ok) ==
    /\ proc = "running"
    /\ r \in inflight /\ r.pc = "connecting"
    /\ IF ok
       THEN /\ handlers' = [handlers EXCEPT ![r.handler].connected = TRUE]
            /\ inflight' = (inflight \ {r}) \cup {[r EXCEPT !.pc = "handling"]}
            /\ UNCHANGED resp
       ELSE /\ inflight' = inflight \ {r}
            /\ handlers' = Live(handlers, transports, inflight')
            /\ Respond(Response("/mcp", 500, Dispatched(TRUE, <<>>)))
    /\ UNCHANGED <<now, proc, analytics, disk, env, timerActive, transports, apiKey,
                   nextId, calls, savedCalls, nTracked, pristine, finalSave, observe>>

\* transport.handleRequest(req, res, req.body) runs; outcome "ok": it
\* answers; "throwBefore": it throws before anything was sent or done;
\* "throwAfter": it throws with the response headers already sent
McpHandle(r, outcome) ==
    LET res == HandleRequest(handlers[r.handler], r.hdr, r.body, Uuid(nextId))
        done == outcome # "throwBefore"
        written == CASE outcome = "ok"          -> <<Written("handled")>>
                     [] outcome = "throwBefore" -> <<>>
                     [] outcome = "throwAfter"  -> <<Written("partial")>>
    IN  /\ proc = "running"
        /\ r \in inflight /\ r.pc = "handling"
        /\ inflight' = inflight \ {r}
        /\ transports' = IF done /\ res.initialized
                         THEN OnSessionInitialized(transports, Uuid(nextId), r.handler)
                         ELSE transports
        /\ nextId' = IF done /\ res.initialized THEN nextId + 1 ELSE nextId
        /\ handlers' = Live(IF done THEN [handlers EXCEPT ![r.handler] = res.handler] ELSE handlers,
                            transports', inflight')
        /\ Respond(Response("/mcp", IF written = <<>> THEN 500 ELSE res.status,
                             Dispatched(outcome # "ok", written)))
        /\ UNCHANGED <<now, proc, analytics, disk, env, timerActive, apiKey,
                       calls, savedCalls, nTracked, pristine, finalSave, observe>>

HandleOutcomes == {"ok", "throwBefore", "throwAfter"}

\* the setInterval callback
\* variant: a save that fails stops the interval
SaveTickStoppingOnFailure(outcome) ==
    /\ proc = "running"
    /\ timerActive
    /\ disk' = SaveAnalytics(disk, analytics, outcome)
    /\ savedCalls' = IF outcome = "ok" THEN calls ELSE savedCalls
    /\ timerActive' = (outcome = "ok")
    /\ UNCHANGED <<now, proc, analytics, env, transports, handlers, inflight,
                   apiKey, resp, nextId, calls, nTracked, pristine, finalSave, observe>>

SaveTick(outcome) ==
    /\ proc = "running"
    /\ timerActive
    /\ disk' = SaveAnalytics(disk, analytics, outcome)
    /\ savedCalls' = IF outcome = "ok" THEN calls ELSE savedCalls
    /\ UNCHANGED <<now, proc, analytics, env, timerActive, transports, handlers, inflight,
                   apiKey, resp, nextId, calls, nTracked, pristine, finalSave, observe>>

\* gracefulShutdown, statement by statement; nothing else runs in between
ShutdownCancel ==
    /\ proc = "running"
    /\ proc' = "cancelled"
    /\ timerActive' = FALSE
    /\ UNCHANGED <<now, analytics, disk, env, transports, handlers, inflight, apiKey, resp,
                   nextId, calls, savedCalls, nTracked, pristine, finalSave, observe>>

\* variant: gracefulShutdown does not call saveAnalytics
ShutdownSaveWithoutWrite(outcome) ==
    /\ proc = "cancelled"
    /\ proc' = "flushed"
    /\ finalSave' = outcome
    /\ UNCHANGED <<now, analytics, disk, env, timerActive, transports, handlers, inflight,
                   apiKey, resp, nextId, calls, savedCalls, nTracked, pristine, observe>>

ShutdownSave(outcome) ==
    /\ proc = "cancelled"
    /\ proc' = "flushed"
    /\ disk' = SaveAnalytics(disk, analytics, outcome)
    /\ savedCalls' = IF outcome = "ok" THEN calls ELSE savedCalls
    /\ finalSave' = outcome
    /\ UNCHANGED <<now, analytics, env, timerActive, transports, handlers, inflight, apiKey,
                   resp, nextId, calls, nTracked, pristine, observe>>

ShutdownExit ==
    /\ proc = "flushed"
    /\ proc' = "exited"
    /\ UNCHANGED <<now, analytics, disk, env, timerActive, transports, handlers, inflight,
                   apiKey, resp, nextId, calls, savedCalls, nTracked, pristine, finalSave,
                   observe>>

\* the process is killed without running its signal handlers
Kill ==
    /\ proc = "running"
    /\ proc' = "killed"
    /\ UNCHANGED <<now, analytics, disk, env, timerActive, transports, handlers, inflight,
                   apiKey, resp, nextId, calls, savedCalls, nTracked, pristine, finalSave,
                   observe>>

\* a new process evaluates the module at time t: the Analytics object is
\* constructed, loadAnalytics runs, the interval is armed, the registry is
\* empty
Start(t, ioOk) ==
    /\ proc \in {"exited", "killed"}
    /\ now' = t
    /\ proc' = "running"
    /\ analytics' = LoadAnalytics(EmptyAnalytics(t), disk, ioOk, t)
    /\ timerActive' = TRUE
    /\ transports' = EmptyMap
    /\ handlers' = EmptyMap
    /\ inflight' = {}
    /\ apiKey' = <<>>
    /\ resp' = NoResponse
    /\ nextId' = 1
    /\ calls' = IF ioOk /\ IsDocument(disk) THEN savedCalls ELSE <<>>
    /\ nTracked' = 0
    /\ pristine' = ~(ioOk /\ IsDocument(disk))
    /\ finalSave' = "none"
    /\ UNCHANGED <<disk, env, savedCalls, observe>>

-----------------------------------------------------------------------------
(* Inputs *)

Body(method, name, paramsOk) ==
    [present |-> TRUE, method |-> method, name |-> name, paramsOk |-> paramsOk]

NoBody == [present |-> FALSE, method |-> "", name |-> "", paramsOk |-> FALSE]

Client(xff, ip, remote, ua) == [xff |-> xff, ip |-> ip, remote |-> remote, ua |-> ua]

Key(qApiKey, qApi_key, xApiKey, auth) ==
    [qApiKey |-> qApiKey, qApi_key |-> qApi_key, xApiKey |-> xApiKey, auth |-> auth]

Request(method, client, key, hdr, body) ==
    [method |-> method, xff |-> client.xff, ip |-> client.ip, remote |-> client.remote,
     ua |-> client.ua, qApiKey |-> key.qApiKey, qApi_key |-> key.qApi_key,
     xApiKey |-> key.xApiKey, auth |-> key.auth, hdr |-> hdr, body |-> body]

ProxiedClient == Client(<<"203.0.113.7", "10.0.0.1">>, "10.0.0.1", "10.0.0.1", "claude-desktop")

BareClient == Client(<<>>, "", "", "")

\* X-Forwarded-For: __proto__
ProtoClient == Client(<<"__proto__">>, "10.0.0.1", "10.0.0.1", "curl")

NoKey == Key(<<>>, <<>>, <<>>, <<>>)

BearerKey == Key(<<>>, <<>>, <<>>, <<"Bearer ", "hdr-key">>)

InitializeBody == Body("initialize", "", TRUE)

ListToolsBody == Body("tools/list", "", TRUE)

WebSearchCall == Body("tools/call", "brave_web_search", TRUE)

NewsSearchCall == Body("tools/call", "brave_news_search", TRUE)

\* a session id no handler of this process was registered under
StaleSession == Uuid(0)

\* a snapshot an earlier process wrote: one /mcp tool call at time 0
EarlierSnapshot ==
    LET req == Request("POST", ProxiedClient, NoKey, NoSession, WebSearchCall)
    IN  TrackToolCall(TrackRequest(EmptyAnalytics(0), req, "/mcp", 0), "brave_web_search", req, 0)

ImportSection(present, counts) == [present |-> present, counts |-> counts]

ImportData(summary, byMethod, byEndpoint, byTool) ==
    [present |-> TRUE, summary |-> summary, byMethod |-> byMethod,
     byEndpoint |-> byEndpoint, byTool |-> byTool]

NoSection == ImportSection(FALSE, EmptyMap)

NoImportData ==
    [present |-> FALSE, summary |-> [present |-> FALSE, totalRequests |-> 0, totalToolCalls |-> 0],
     byMethod |-> NoSection, byEndpoint |-> NoSection, byTool |-> NoSection]

BackupData ==
    ImportData([present |-> TRUE, totalRequests |-> 2, totalToolCalls |-> 2],
               ImportSection(TRUE, "POST" :> 2),
               ImportSection(TRUE, "/mcp" :> 2),
               ImportSection(TRUE, "brave_web_search" :> 2))

ToolsOnlyData ==
    ImportData([present |-> FALSE, totalRequests |-> 0, totalToolCalls |-> 0],
               NoSection, NoSection, ImportSection(TRUE, "brave_news_search" :> 1))

\* an import body whose counts are negative numbers
\* {}
EmptyObjectData ==
    ImportData([present |-> FALSE, totalRequests |-> 0, totalToolCalls |-> 0],
               NoSection, NoSection, NoSection)

\* {"breakdown": {"byMethod": {...}, "byEndpoint": {...}}}
RoutesOnlyData ==
    ImportData([present |-> FALSE, totalRequests |-> 0, totalToolCalls |-> 0],
               ImportSection(TRUE, "GET" :> 1), ImportSection(TRUE, "/health" :> 1), NoSection)

RefundData ==
    ImportData([present |-> TRUE, totalRequests |-> -1, totalToolCalls |-> -1],
               NoSection, NoSection, ImportSection(TRUE, "brave_local_search" :> -1))

-----------------------------------------------------------------------------
(* Initial states: the first process has evaluated the module at time HOUR  *)

InitWith(disks, envs, obs) ==
    /\ now = HOUR
    /\ proc = "running"
    /\ env \in envs
    /\ disk \in disks
    /\ \E ioOk \in BOOLEAN :
         /\ analytics = LoadAnalytics(EmptyAnalytics(HOUR), disk, ioOk, HOUR)
         /\ calls = IF ioOk /\ IsDocument(disk) THEN Reverse(analytics.recentToolCalls) ELSE <<>>
         /\ pristine = ~(ioOk /\ IsDocument(disk))
    /\ savedCalls = IF IsDocument(disk) THEN Reverse(Parse(disk.doc).recentToolCalls) ELSE <<>>
    /\ timerActive = TRUE
    /\ transports = EmptyMap
    /\ handlers = EmptyMap
    /\ inflight = {}
    /\ apiKey = <<>>
    /\ resp = NoResponse
    /\ nextId = 1
    /\ nTracked = 0
    /\ finalSave = "none"
    /\ observe = obs

EarlierDocument == Document(Stringify(EarlierSnapshot))

SecuredEnv == [braveKey |-> <<>>, importKey |-> "secret"]

OpenEnv == [braveKey |-> <<"env-key">>, importKey |-> ""]

\* requests to the informational routes
GetRequest(client) == Request("GET", client, NoKey, NoSession, NoBody)

PostRequest(client) == Request("POST", client, NoKey, NoSession, NoBody)

\* the steps in which a suspended /mcp request goes on
McpProgress ==
    \/ \E r \in inflight, ok \in BOOLEAN : McpConnect(r, ok)
    \/ \E r \in inflight, o \in HandleOutcomes : McpHandle(r, o)

\* an import is enumerated while no counter it raises passes MaxCount
Small(a) ==
    /\ a.totalRequests <= MaxCount /\ a.totalToolCalls <= MaxCount
    /\ \A k \in DOMAIN a.toolCalls : a.toolCalls[k] <= MaxCount
    /\ \A k \in DOMAIN a.requestsByMethod : a.requestsByMethod[k] <= MaxCount
    /\ \A k \in DOMAIN a.requestsByEndpoint : a.requestsByEndpoint[k] <= MaxCount

Imports(keys, datas) ==
    \E key \in keys, data \in datas, o \in SaveOutcomes :
        /\ Small(MergeImport(analytics, data))
        /\ AnalyticsImport(key, data, o, now)

-----------------------------------------------------------------------------
(* Specification Spec: one process; every route, tool calls, import and     *)
(* periodic saves                                                           *)

Init == InitWith({Absent, Corrupt, EarlierDocument}, {SecuredEnv}, FALSE)

McpRequests ==
    { Request("POST", ProxiedClient, NoKey, NoSession, WebSearchCall),
      Request("POST", BareClient, BearerKey, NoSession, NewsSearchCall),
      Request("GET", ProxiedClient, NoKey, NoSession, NoBody) }

Arrivals ==
    \/ Health(GetRequest(ProxiedClient), now)
    \/ Root(GetRequest(ProxiedClient), now)
    \/ Dashboard(GetRequest(ProxiedClient), now)
    \/ \E req \in {GetRequest(ProxiedClient), PostRequest(BareClient)} : Ping(req, now)
    \/ AnalyticsGet(GetRequest(ProxiedClient), now)
    \/ AnalyticsTools(GetRequest(ProxiedClient), now)
    \/ \E req \in McpRequests : Cardinality(inflight) < MaxInflight /\ McpArrive(req, now)

Next ==
    \/ analytics.totalRequests < MaxCount /\ Arrivals
    \/ McpProgress
    \/ Imports({"", "secret"}, {NoImportData, BackupData, ToolsOnlyData})
    \/ \E o \in SaveOutcomes : SaveTick(o)

Spec == Init /\ [][Next]_vars

-----------------------------------------------------------------------------
(* Specification SpecLifecycle: requests, saves that may fail, graceful     *)
(* shutdown, kill, and restart from the file an hour later                  *)

InitLifecycle == InitWith({Absent, Corrupt, EarlierDocument}, {SecuredEnv}, FALSE)

NextLifecycle ==
    \/ analytics.totalRequests < MaxCount /\ Health(GetRequest(BareClient), now)
    \/ /\ analytics.totalRequests < MaxCount
       /\ inflight = {}
       /\ McpArrive(Request("POST", ProxiedClient, NoKey, NoSession, WebSearchCall), now)
    \/ McpProgress
    \/ Imports({"secret"}, {ToolsOnlyData})
    \/ \E o \in SaveOutcomes : SaveTick(o)
    \/ ShutdownCancel
    \/ \E o \in SaveOutcomes : ShutdownSave(o)
    \/ ShutdownExit
    \/ Kill
    \/ \E ioOk \in BOOLEAN : now < (MaxHours + 1) * HOUR /\ Start(now + HOUR, ioOk)

SpecLifecycle == InitLifecycle /\ [][NextLifecycle]_vars

-----------------------------------------------------------------------------
(* Specification SpecRecent: a long run of tool calls, one a minute, from   *)
(* an empty snapshot; saves, shutdown, kill and restart are enumerated      *)
(* once the recent-calls list is full                                       *)

InitRecent == InitWith({Absent}, {SecuredEnv}, FALSE)

NearlyFull == Len(analytics.recentToolCalls) >= MAX_RECENT_CALLS

NextRecent ==
    \/ /\ now < HOUR + MaxRecentRun
       /\ inflight = {}
       /\ McpArrive(Request("POST", ProxiedClient, NoKey, NoSession, WebSearchCall), now + 1)
    \/ McpProgress
    \/ \E o \in SaveOutcomes :
         /\ NearlyFull
         /\ Get(analytics.toolCalls, "brave_news_search") = 0
         /\ AnalyticsImport("secret", ToolsOnlyData, o, now)
    \/ \E o \in SaveOutcomes : NearlyFull /\ SaveTick(o)
    \/ NearlyFull /\ ShutdownCancel
    \/ \E o \in SaveOutcomes : ShutdownSave(o)
    \/ ShutdownExit
    \/ NearlyFull /\ Kill
    \/ \E ioOk \in BOOLEAN : Start(now, ioOk)

SpecRecent == InitRecent /\ [][NextRecent]_vars

-----------------------------------------------------------------------------
(* Specification SpecSessions: /mcp requests with every kind of session     *)
(* header and body, concurrently in flight, in processes that may be        *)
(* killed and started again                                                 *)

InitSessions == InitWith({Absent}, {OpenEnv}, TRUE)

SessionHeaders == {NoSession, StaleSession} \cup DOMAIN transports

SessionRequests ==
    { Request("POST", ProxiedClient, NoKey, h, b) :
        h \in SessionHeaders, b \in {InitializeBody, ListToolsBody, WebSearchCall} }

NextSessions ==
    \/ \E req \in SessionRequests :
         /\ nTracked < MaxMcp
         /\ Cardinality(inflight) < MaxInflight
         /\ McpArrive(req, now)
    \/ McpProgress
    \/ Kill
    \/ Start(now, TRUE)

SpecSessions == InitSessions /\ [][NextSessions]_vars

-----------------------------------------------------------------------------
(* Specification SpecImport: import requests with every kind of key and     *)
(* body, one request a minute, with and without a configured secret,        *)
(* between other requests and periodic saves; responses are observed        *)

MaxImports == 3

InitImport == InitWith({Absent, EarlierDocument}, {SecuredEnv, OpenEnv}, TRUE)

ImportKeys == {"", "wrong", "secret"}

ImportDatas ==
    { NoImportData, BackupData, ToolsOnlyData, RefundData, EmptyObjectData, RoutesOnlyData }

NextImport ==
    \/ \E key \in ImportKeys, data \in ImportDatas, o \in SaveOutcomes :
         /\ now < HOUR + MaxImports
         /\ AnalyticsImport(key, data, o, now + 1)
    \/ /\ now < HOUR + MaxImports
       /\ Health(GetRequest(BareClient), now + 1)
    \/ \E o \in SaveOutcomes : SaveTick(o)

SpecImport == InitImport /\ [][NextImport]_vars

-----------------------------------------------------------------------------
(* Specification SpecViews: a few requests and tool calls in the first      *)
(* minutes of a process, then one GET /analytics an hour for more than a    *)
(* day; responses are observed                                              *)

MaxViewCalls == 2

MaxViewHours == 26

InitViews == InitWith({Absent, EarlierDocument}, {SecuredEnv}, TRUE)

FirstMinutes == now <= HOUR + 1

\* a tools/call whose params.name is "7"
NumberedToolCall == Body("tools/call", "7", TRUE)

ViewToolCalls ==
    { Request("POST", ProxiedClient, NoKey, NoSession, WebSearchCall),
      Request("POST", BareClient, BearerKey, NoSession, NewsSearchCall),
      Request("POST", BareClient, NoKey, NoSession, NumberedToolCall) }

NextViews ==
    \/ \E t \in {now, now + 1} :
         /\ FirstMinutes /\ t <= HOUR + 1 /\ nTracked < MaxViewCalls
         /\ AnalyticsGet(GetRequest(ProxiedClient), t)
    \/ /\ FirstMinutes /\ nTracked < MaxViewCalls
       /\ AnalyticsGet(GetRequest(BareClient), now)
    \/ \E req \in ViewToolCalls :
         /\ FirstMinutes /\ nTracked < MaxViewCalls /\ inflight = {}
         /\ McpArrive(req, now)
    \/ McpProgress
    \/ /\ now < MaxViewHours * HOUR
       /\ AnalyticsGet(GetRequest(ProxiedClient), now + HOUR)

SpecViews == InitViews /\ [][NextViews]_vars

-----------------------------------------------------------------------------
(* Specification SpecKeys: /mcp requests that give the API key in every     *)
(* combination of query parameters and headers, with and without            *)
(* BRAVE_API_KEY in the environment                                         *)

MaxKeyRequests == 2

MaxKeyInflight == 2

InitKeys == InitWith({Absent}, {SecuredEnv, OpenEnv}, FALSE)

\* values of the Authorization header
AuthValues ==
    { <<>>, <<"Bearer ", "hdr-key">>, <<"hdr-key">>, <<"Bearer ">>,
      <<"Token ", "Bearer ", "hdr-key">> }

KeyInputs ==
    { Key(a, b, c, d) : a \in {<<>>, <<"q-key">>}, b \in {<<>>, <<"q_key">>},
                        c \in {<<>>, <<"x-key">>}, d \in AuthValues }

KeyRequest(key) == Request("POST", BareClient, key, NoSession, ListToolsBody)

KeyRequests ==
    { Request("POST", BareClient, key, NoSession, body) :
        key \in KeyInputs, body \in {ListToolsBody, WebSearchCall} }

NextKeys ==
    \/ \E req \in KeyRequests :
         /\ nTracked < MaxKeyRequests
         /\ Cardinality(inflight) < MaxKeyInflight
         /\ McpArrive(req, now)
    \/ McpProgress

SpecKeys == InitKeys /\ [][NextKeys]_vars

-----------------------------------------------------------------------------
(* Specification SpecDispatch: /mcp requests with every shape of body the   *)
(* tool-call test distinguishes, among requests to another route            *)

MaxDispatch == 3

InitDispatch == InitWith({Absent}, {OpenEnv}, FALSE)

\* method tools/call without params.name
NamelessCall == Body("tools/call", "", TRUE)

\* params.name under another method
NamedListTools == Body("tools/list", "brave_web_search", TRUE)

DispatchBodies ==
    { WebSearchCall, NewsSearchCall, NamelessCall, NamedListTools, InitializeBody, NoBody }

DispatchRequests ==
    { Request("POST", c, NoKey, NoSession, b) :
        c \in {ProxiedClient, ProtoClient}, b \in DispatchBodies }

NextDispatch ==
    \/ \E req \in DispatchRequests :
         /\ nTracked < MaxDispatch
         /\ inflight = {}
         /\ McpArrive(req, now)
    \/ McpProgress
    \/ nTracked < MaxDispatch /\ Health(GetRequest(ProxiedClient), now)
    \/ \E o \in SaveOutcomes : SaveTick(o)

SpecDispatch == InitDispatch /\ [][NextDispatch]_vars

-----------------------------------------------------------------------------
(* Specification SpecConcurrent: /mcp requests that overlap, each suspended *)
(* at its awaits while others arrive, are resolved and are handled          *)

MaxConcurrent == 2

MaxOverlapped == 3

InitConcurrent == InitWith({Absent}, {OpenEnv}, TRUE)

ConcurrentRequests ==
    { Request("POST", ProxiedClient, NoKey, h, b) :
        h \in {NoSession} \cup DOMAIN transports, b \in {InitializeBody, WebSearchCall} }

NextConcurrent ==
    \/ \E req \in ConcurrentRequests :
         /\ nTracked < MaxOverlapped
         /\ Cardinality(inflight) < MaxConcurrent
         /\ McpArrive(req, now)
    \/ McpProgress
    \/ \E o \in SaveOutcomes : pristine /\ AnalyticsImport("", BackupData, o, now + 1)

SpecConcurrent == InitConcurrent /\ [][NextConcurrent]_vars

-----------------------------------------------------------------------------
(* Properties *)

\* C1: in a process that started from an empty snapshot and merged no
\* import, totalRequests equals the number of trackRequest calls made so
\* far, whatever tool calls and saves happened in between.
C1_TotalEqualsTracked == pristine => analytics.totalRequests = nTracked

C1_Witness ==
    /\ pristine /\ nTracked = 2 /\ analytics.totalRequests = 2
    /\ calls # <<>>
    /\ IsDocument(disk) /\ disk # EarlierDocument

\* the newest call of the history
LastCall == calls[Len(calls)]

\* C2: a step that records a tool call for T raises toolCalls[T] and
\* totalToolCalls by exactly 1 and leaves that call's record at the head of
\* recentToolCalls; in every state with a recorded call the head is the call
\* recorded last.
C2_RecordedCallStep ==
    Len(calls') = Len(calls) + 1 =>
        LET c == calls'[Len(calls')]
        IN  /\ Get(analytics'.toolCalls, c.tool) = Get(analytics.toolCalls, c.tool) + 1
            /\ analytics'.totalToolCalls = analytics.totalToolCalls + 1
            /\ analytics'.recentToolCalls # <<>>
            /\ Head(analytics'.recentToolCalls) = c

C2_HeadIsNewest ==
    calls # <<>> =>
        /\ analytics.recentToolCalls # <<>>
        /\ Head(analytics.recentToolCalls) = LastCall

C3_RecentBounded ==
    /\ Len(analytics.recentToolCalls) <= MAX_RECENT_CALLS
    /\ IsDocument(disk) => Len(Parse(disk.doc).recentToolCalls) <= MAX_RECENT_CALLS

C3_Witness ==
    /\ Len(calls) > MAX_RECENT_CALLS
    /\ Len(analytics.recentToolCalls) = MAX_RECENT_CALLS
    /\ nTracked = 0 /\ proc = "running"

\* the last n elements of s
LastN(s, n) == SubSeq(s, Len(s) - n + 1, Len(s))

\* C4: recentToolCalls is the last min(k, MAX_RECENT_CALLS) of the k calls
\* recorded since the empty snapshot, newest first; on overflow the oldest
\* entry is the one that goes.
C4_NewestFirstWindow ==
    analytics.recentToolCalls =
        Reverse(LastN(calls, Min(Len(calls), MAX_RECENT_CALLS)))

C4_Witness ==
    /\ Len(calls) = MAX_RECENT_CALLS + 1
    /\ \A i \in 1..Len(analytics.recentToolCalls) : analytics.recentToolCalls[i] # calls[1]
    /\ \A j \in 2..Len(calls) :
         \E i \in 1..Len(analytics.recentToolCalls) : analytics.recentToolCalls[i] = calls[j]
    /\ Head(analytics.recentToolCalls) = LastCall

\* C5 as stated: at exit after a graceful shutdown the timer is cancelled, the
\* final save has run and the file equals the in-memory snapshot.
C5_ExitFileEqualsMemory ==
    proc = "exited" =>
        /\ ~timerActive
        /\ finalSave # "none"
        /\ disk = Document(Stringify(analytics))

C5_ShutdownOrder ==
    /\ proc \in {"cancelled", "flushed", "exited"} => ~timerActive
    /\ proc \in {"flushed", "exited"} => finalSave # "none"
    /\ (proc = "exited" /\ finalSave = "ok") => disk = Document(Stringify(analytics))

C5_NoSaveAfterCancel ==
    (~timerActive /\ disk' # disk) => (proc = "cancelled" /\ proc' = "flushed")

\* C5 (amended): the signal handler cancels the timer, then saves once, then
\* exits; once the timer is cancelled the file is written by that final save
\* only; and at exit the file equals the in-memory snapshot when the final
\* write succeeded.
C5_ShutdownFlushes == [](C5_ShutdownOrder) /\ [][C5_NoSaveAfterCancel]_vars

C5_Witness ==
    /\ proc = "exited" /\ finalSave = "ok"
    /\ nTracked >= 1 /\ calls # <<>>
    /\ disk = Document(Stringify(analytics))

C6_SaveThenLoad ==
    \A t \in {now, now + HOUR} :
        LoadAnalytics(EmptyAnalytics(t), SaveAnalytics(disk, analytics, "ok"), TRUE, t) = analytics

C6_RestartStep ==
    ( /\ proc # "running" /\ proc' = "running"
      /\ disk = Document(Stringify(analytics))
      /\ ~pristine' )
    => analytics' = analytics

\* C6: saving any reachable snapshot and loading the file in a new process
\* gives back the same snapshot, serverStartTime included; a restart that
\* reads the file the old process wrote from its last state starts with that
\* state.
C6_RoundTrip == [](C6_SaveThenLoad) /\ [][C6_RestartStep]_vars

C6_Witness ==
    /\ proc = "running" /\ nTracked = 0 /\ ~pristine
    /\ now > HOUR /\ analytics.serverStartTime = HOUR
    /\ analytics.totalRequests >= 1 /\ analytics.recentToolCalls # <<>>
    /\ disk = Document(Stringify(analytics))

\* the /mcp request that this step received
Arrived(r) == r \in inflight' /\ r \notin inflight /\ nTracked' = nTracked + 1

\* the suspended /mcp request that this step of the running process moved on
Progressed(r) == r \in inflight /\ r \notin inflight' /\ proc = "running"

C7_ResumeStep ==
    \A r \in inflight' :
        (Arrived(r) /\ r.hdr # NoSession /\ r.hdr \in DOMAIN transports) =>
            /\ r.handler = transports[r.hdr]
            /\ r.pc = "handling"
            /\ handlers' = handlers
            /\ transports' = transports

\* C7: a request whose session header is a registered sessionId is given the
\* handler registered under it; no handler is created and the registry is
\* unchanged, whatever the body and however often it is repeated.
C7_KnownSessionReused == [][C7_ResumeStep]_vars

C7_Witness ==
    /\ nTracked >= 3
    /\ \E r \in inflight :
         /\ r.hdr \in DOMAIN transports
         /\ r.handler = transports[r.hdr]
         /\ r.body = WebSearchCall

C8_DiscoveryStep ==
    /\ \A r \in inflight' :
         (Arrived(r) /\ r.hdr = NoSession /\ IsListToolsRequest(r.body)) =>
             /\ r.handler \notin DOMAIN handlers
             /\ r.handler \in DOMAIN handlers'
             /\ ~handlers'[r.handler].stateful
             /\ handlers'[r.handler].sessionId = NoSession
             /\ transports' = transports
    /\ \A r \in inflight :
         (Progressed(r) /\ r.hdr = NoSession /\ IsListToolsRequest(r.body)) =>
             transports' = transports

\* C8: a discovery request without session header gets a new handler that
\* has no session id generator, and the registry is the same when the
\* handler is returned, when it is connected and when it has handled the
\* request.
C8_DiscoveryUnregistered == [][C8_DiscoveryStep]_vars

C8_Witness ==
    /\ transports # EmptyMap
    /\ \E r \in inflight :
         /\ r.hdr = NoSession /\ IsListToolsRequest(r.body)
         /\ r.pc = "handling"
         /\ ~handlers[r.handler].stateful
         /\ handlers[r.handler].connected
         /\ r.handler \notin Range(transports)

IsInitialize(body) == body.present /\ body.method = "initialize"

\* the non-discovery request without session header r has been handled in
\* this step
HandledNew(r) ==
    /\ Progressed(r) /\ r.pc = "handling"
    /\ r.hdr = NoSession /\ ~IsListToolsRequest(r.body)

C9_SizeGrowsStep ==
    \A r \in inflight :
        (HandledNew(r) /\ resp'.status # 500) =>
            Cardinality(DOMAIN transports') = Cardinality(DOMAIN transports) + 1

\* C9 as stated: every non-discovery request without session header, once
\* resolved and handled, has added one entry to the registry.
C9_AlwaysRegisters == [][C9_SizeGrowsStep]_vars

C9_ResolveStep ==
    \A r \in inflight' :
        (Arrived(r) /\ r.hdr = NoSession /\ ~IsListToolsRequest(r.body)) =>
            /\ r.handler \notin DOMAIN handlers
            /\ r.handler \in DOMAIN handlers'
            /\ handlers'[r.handler].stateful
            /\ handlers'[r.handler].sessionId = NoSession
            /\ transports' = transports

C9_HandledStep ==
    \A r \in inflight :
        HandledNew(r) =>
            IF IsInitialize(r.body) /\ resp'.status # 500
            THEN \E sid \in DOMAIN transports' :
                    /\ sid \notin DOMAIN transports
                    /\ transports' = transports @@ (sid :> r.handler)
                    /\ Cardinality(DOMAIN transports') = Cardinality(DOMAIN transports) + 1
            ELSE transports' = transports

\* C9 (amended): resolving a non-discovery request without session header
\* creates a new session-generating handler and leaves the registry as it
\* is; when the request is the initialization request and the handler
\* handles it, a session id that was not in the registry is registered with
\* that handler and the registry grows by exactly 1; for any other body
\* nothing is registered.
C9_RegistersOnInitialize == [][C9_ResolveStep /\ C9_HandledStep]_vars

C9_Witness ==
    /\ inflight = {} /\ nTracked = 2 /\ resp.status = 200
    /\ Cardinality(DOMAIN transports) = 2
    /\ \A sid \in DOMAIN transports :
         /\ handlers[transports[sid]].sessionId = sid
         /\ handlers[transports[sid]].initialized

C10_KeepStep ==
    proc = "running" =>
        \A sid \in DOMAIN transports :
            /\ sid \in DOMAIN transports'
            /\ transports'[sid] = transports[sid]

\* C10: while the process lives, no step removes a registry entry or binds
\* a registered sessionId to another handler.
C10_EntriesArePermanent == [][C10_KeepStep]_vars

C10_Witness ==
    /\ nTracked >= 3 /\ inflight = {}
    /\ \E s1 \in DOMAIN transports, s2 \in DOMAIN transports :
         /\ s1 # s2 /\ transports[s1] # transports[s2]
         /\ handlers[transports[s1]].sessionId = s1
         /\ handlers[transports[s2]].sessionId = s2
    /\ resp.status = 200

\* the suspended /mcp request r is finished by this step
Finished(r) == Progressed(r) /\ \A q \in inflight' : q.id # r.id

C11_Step ==
    \A r \in inflight :
        Finished(r) =>
            /\ proc' = "running"
            /\ resp'.ep = "/mcp"
            /\ Len(resp'.body.writes) <= 1
            /\ r.pc = "connecting" => resp'.body.logged
            /\ resp'.body.logged =>
                 \/ /\ resp'.status = 500
                    /\ resp'.body.writes =
                         <<[id |-> "null", code |-> -32603, message |-> "Internal server error"]>>
                 \/ /\ r.pc = "handling"
                    /\ resp'.body.writes = <<Written("partial")>>
            /\ ~resp'.body.logged => resp'.body.writes = <<Written("handled")>>

\* C11: when getTransport or handleRequest fails, the request ends with the
\* process still running and with exactly one thing written to the
\* response: the generic envelope (500, code -32603, "Internal server
\* error", null id) when nothing had been sent, otherwise only what the
\* handler had already sent; no request gets a second response.
C11_FailureAnsweredOnce == [][C11_Step]_vars

C11_Witness ==
    /\ proc = "running" /\ transports # EmptyMap /\ inflight = {}
    /\ resp.ep = "/mcp" /\ resp.status = 500
    /\ resp.body.logged
    /\ resp.body.writes = <<GenericServerError>>
    /\ nTracked >= 2

C12_Step ==
    /\ \A r \in inflight' :
         Arrived(r) =>
             /\ analytics'.totalRequests = analytics.totalRequests + 1
             /\ Get(analytics'.requestsByEndpoint, "/mcp")
                  = Get(analytics.requestsByEndpoint, "/mcp") + 1
             /\ r.pc \in {"connecting", "handling"}
             /\ resp'.ep = resp.ep /\ resp'.status = resp.status /\ resp' = resp
    /\ \A r \in inflight :
         Progressed(r) => analytics' = analytics

C12_CountedRequests ==
    proc = "running" =>
        analytics.totalRequests = nTracked /\ Cardinality(inflight) <= nTracked

\* C12: the step that receives a /mcp request counts it (totalRequests and
\* the /mcp endpoint counter go up by 1) and produces no response; resolution
\* and handling come in later steps, which leave every counter alone
\* whether they succeed or fail; so each received request is counted
\* exactly once, before its response.
C12_CountedBeforeHandled == [](C12_CountedRequests) /\ [][C12_Step]_vars

C12_Witness ==
    /\ proc = "running" /\ inflight = {}
    /\ analytics.totalRequests = 2 /\ nTracked = 2
    /\ resp.ep = "/mcp" /\ resp.status = 500
    /\ resp.body.logged
    /\ transports = EmptyMap

\* this step answered a POST /analytics/import with the given status
Imported(status) ==
    /\ now' # now
    /\ resp'.ep = "/analytics/import"
    /\ resp'.status = status

C13_Rejects ==
    \A key \in ImportKeys, data \in ImportDatas, o \in SaveOutcomes :
        (env.importKey # "" /\ key # env.importKey) =>
            LET r == ImportRoute(analytics, disk, env, key, data, o)
            IN  r.status = 403 /\ r.analytics = analytics /\ r.disk = disk

C13_Step ==
    Imported(403) =>
        /\ env.importKey # ""
        /\ analytics' = analytics
        /\ disk' = disk

\* C13: with a configured secret, an import whose key is absent or different
\* is answered 403 and leaves the snapshot in memory and the file as they
\* were, whatever the body; and a 403 is only ever given that way.
C13_BadKeyChangesNothing == [](C13_Rejects) /\ [][C13_Step]_vars

C13_Witness ==
    /\ resp.ep = "/analytics/import" /\ resp.status = 403
    /\ env.importKey = "secret"
    /\ ~pristine /\ analytics.totalRequests > 0
    /\ disk = Document(Stringify(analytics))

\* counter map `new` is `old` with the section's counts added key by key
AddedPerKey(old, new, section) ==
    IF section.present
    THEN /\ DOMAIN new = DOMAIN old \cup DOMAIN section.counts
         /\ \A k \in DOMAIN section.counts : new[k] = Get(old, k) + section.counts[k]
         /\ \A k \in DOMAIN old \ DOMAIN section.counts : new[k] = old[k]
    ELSE new = old

\* snapshot `new` is `old` with the import body `data` added
AddedImport(old, new, data) ==
    /\ data.present
    /\ new.totalRequests = old.totalRequests
                             + (IF data.summary.present THEN data.summary.totalRequests ELSE 0)
    /\ new.totalToolCalls = old.totalToolCalls
                             + (IF data.summary.present THEN data.summary.totalToolCalls ELSE 0)
    /\ AddedPerKey(old.requestsByMethod, new.requestsByMethod, data.byMethod)
    /\ AddedPerKey(old.requestsByEndpoint, new.requestsByEndpoint, data.byEndpoint)
    /\ AddedPerKey(old.toolCalls, new.toolCalls, data.byTool)
    /\ new.recentToolCalls = old.recentToolCalls
    /\ new.clientsByIp = old.clientsByIp
    /\ new.clientsByUserAgent = old.clientsByUserAgent
    /\ new.hourlyRequests = old.hourlyRequests
    /\ new.serverStartTime = old.serverStartTime

C14_Accepts ==
    \A key \in ImportKeys, data \in ImportDatas, o \in SaveOutcomes :
        LET r == ImportRoute(analytics, disk, env, key, data, o)
        IN  r.status = 200 => AddedImport(analytics, r.analytics, data)

C14_Step ==
    Imported(200) =>
        /\ \E data \in ImportDatas : AddedImport(analytics, analytics', data)
        /\ resp'.body = <<analytics'.totalRequests, analytics'.totalToolCalls>>

SectionKeys(data) ==
    [byMethod   |-> IF data.byMethod.present THEN DOMAIN data.byMethod.counts ELSE {},
     byEndpoint |-> IF data.byEndpoint.present THEN DOMAIN data.byEndpoint.counts ELSE {},
     byTool     |-> IF data.byTool.present THEN DOMAIN data.byTool.counts ELSE {}]

DisjointDeltas(d1, d2) ==
    /\ d1.present /\ d2.present
    /\ SectionKeys(d1).byMethod \cap SectionKeys(d2).byMethod = {}
    /\ SectionKeys(d1).byEndpoint \cap SectionKeys(d2).byEndpoint = {}
    /\ SectionKeys(d1).byTool \cap SectionKeys(d2).byTool = {}

\* C15: for every reachable snapshot and any two import bodies with disjoint
\* key sets, merging one then the other gives the same snapshot as merging
\* them in the other order.
C15_DisjointMergesCommute ==
    \A d1 \in ImportDatas, d2 \in ImportDatas :
        DisjointDeltas(d1, d2) =>
            MergeImport(MergeImport(analytics, d1), d2)
              = MergeImport(MergeImport(analytics, d2), d1)

C15_Witness ==
    /\ resp.ep = "/analytics/import" /\ resp.status = 200
    /\ analytics = MergeImport(MergeImport(EmptyAnalytics(HOUR), RefundData), BackupData)
    /\ analytics = MergeImport(MergeImport(EmptyAnalytics(HOUR), BackupData), RefundData)
    /\ DisjointDeltas(BackupData, RefundData)
    /\ now = HOUR + 2

CounterMaps(a) ==
    <<a.requestsByMethod, a.requestsByEndpoint, a.toolCalls, a.clientsByIp,
      a.clientsByUserAgent, a.hourlyRequests>>

\* C17 as stated: every counter of the snapshot is a non-negative integer in
\* every reachable state.
C17_CountersNonNegative ==
    /\ analytics.totalRequests \in Nat
    /\ analytics.totalToolCalls \in Nat
    /\ \A i \in 1..Len(CounterMaps(analytics)) :
         \A k \in DOMAIN CounterMaps(analytics)[i] : CounterMaps(analytics)[i][k] \in Nat

\* C18 as stated: no step of a running process makes totalRequests or
\* totalToolCalls smaller.
C18_TotalsNeverDecrease ==
    [][ (proc = "running" /\ proc' = "running") =>
          /\ analytics'.totalRequests >= analytics.totalRequests
          /\ analytics'.totalToolCalls >= analytics.totalToolCalls ]_vars

\* this step is the start of a new process
Started == proc \in {"exited", "killed"} /\ proc' = "running"

C16_Step ==
    (Started /\ (pristine' \/ ~IsDocument(disk))) =>
        /\ pristine'
        /\ analytics' = [ serverStartTime    |-> now',
                          totalRequests      |-> 0,
                          totalToolCalls     |-> 0,
                          requestsByMethod   |-> EmptyMap,
                          requestsByEndpoint |-> EmptyMap,
                          toolCalls          |-> EmptyMap,
                          recentToolCalls    |-> <<>>,
                          clientsByIp        |-> EmptyMap,
                          clientsByUserAgent |-> EmptyMap,
                          hourlyRequests     |-> EmptyMap ]
        /\ timerActive' /\ disk' = disk

\* C16: a process that starts while the file is absent, unreadable or
\* unparseable runs, with an empty snapshot whose serverStartTime is the
\* time of the start.
C16_LoadFailureStartsEmpty == [][C16_Step]_vars

C16_Witness ==
    /\ proc = "running" /\ pristine /\ nTracked = 0
    /\ now > HOUR /\ analytics.serverStartTime = now
    /\ analytics.totalRequests = 0 /\ analytics.recentToolCalls = <<>>
    /\ disk = Corrupt
    /\ savedCalls # <<>>

SummaryServed ==
    Get(analytics'.requestsByEndpoint, "/analytics")
      = Get(analytics.requestsByEndpoint, "/analytics") + 1

Keys(entries) == {entries[i][1] : i \in 1..Len(entries)}

C20_Step ==
    SummaryServed =>
        LET v == resp'.body
            a == analytics'
        IN  /\ resp'.ep = "/analytics"
            /\ Len(v.byTool) = Cardinality(DOMAIN a.toolCalls)
            /\ {v.byTool[i] : i \in 1..Len(v.byTool)}
                 = {<<k, a.toolCalls[k]>> : k \in DOMAIN a.toolCalls}
            /\ \A i \in 1..Len(v.byTool), j \in 1..Len(v.byTool) :
                 i < j => v.byTool[i][2] >= v.byTool[j][2]
            /\ Len(v.hourlyRequests) = Min(24, Cardinality(DOMAIN a.hourlyRequests))
            /\ \A i \in 1..Len(v.hourlyRequests) :
                 /\ v.hourlyRequests[i][1] \in DOMAIN a.hourlyRequests
                 /\ v.hourlyRequests[i][2] = a.hourlyRequests[v.hourlyRequests[i][1]]
            /\ \A i \in 1..Len(v.hourlyRequests), j \in 1..Len(v.hourlyRequests) :
                 i < j => v.hourlyRequests[i][1] < v.hourlyRequests[j][1]
            /\ \A k \in DOMAIN a.hourlyRequests \ Keys(v.hourlyRequests) :
                 \A i \in 1..Len(v.hourlyRequests) : k < v.hourlyRequests[i][1]
            /\ v.uniqueClients = Cardinality(DOMAIN a.clientsByIp)
            /\ v.totalRequests = a.totalRequests
            /\ v.totalToolCalls = a.totalToolCalls
            /\ a.totalRequests = analytics.totalRequests + 1
            /\ SumMap(a.requestsByMethod) = SumMap(analytics.requestsByMethod) + 1
            /\ SumMap(a.requestsByEndpoint) = SumMap(analytics.requestsByEndpoint) + 1
            /\ SumMap(a.clientsByIp) = SumMap(analytics.clientsByIp) + 1
            /\ SumMap(a.clientsByUserAgent) = SumMap(analytics.clientsByUserAgent) + 1
            /\ SumMap(a.hourlyRequests) = SumMap(analytics.hourlyRequests) + 1
            /\ a.totalToolCalls = analytics.totalToolCalls
            /\ a.toolCalls = analytics.toolCalls
            /\ a.recentToolCalls = analytics.recentToolCalls
            /\ a.serverStartTime = analytics.serverStartTime
            /\ disk' = disk

\* C20 as stated: the summary returned by GET /analytics lists every tool with its
\* count in descending order of count, lists the min(24, number of
\* buckets) greatest hour keys in ascending order with their counts, gives
\* the number of keys of clientsByIp as uniqueClients, and serving it
\* changes the snapshot only by the one count of the request itself.
C20_SummaryIsDerived == [][C20_Step]_vars

\* the first non-empty string of a list of candidates, else the empty one
RECURSIVE FirstNonEmpty(_)
FirstNonEmpty(cands) ==
    IF cands = <<>> THEN <<>>
    ELSE IF Head(cands) # <<>> THEN Head(cands)
    ELSE FirstNonEmpty(Tail(cands))

\* s without the prefix tok, s itself when it does not begin with tok
WithoutPrefix(s, tok) == IF s # <<>> /\ Head(s) = tok THEN Tail(s) ELSE s

\* s without its first occurrence of tok
WithoutFirst(s, tok) ==
    IF \E i \in 1..Len(s) : s[i] = tok
    THEN LET i == CHOOSE j \in 1..Len(s) : s[j] = tok /\ \A k \in 1..(j - 1) : s[k] # tok
         IN  SubSeq(s, 1, i - 1) \o SubSeq(s, i + 1, Len(s))
    ELSE s

\* C21 as stated: the key stored for a /mcp request is the first that is
\* given of query apiKey, query api_key, x-api-key, Authorization without
\* its 'Bearer ' prefix, BRAVE_API_KEY.
C21_PrefixPriority ==
    \A key \in KeyInputs :
        LET chosen == FirstNonEmpty(<<key.qApiKey, key.qApi_key, key.xApiKey,
                                      WithoutPrefix(key.auth, "Bearer "), env.braveKey>>)
        IN  chosen # <<>> => ExtractApiKey(apiKey, KeyRequest(key), env) = chosen

\* the key in force after a request with the given key fields
KeyAfter(old, key, e) ==
    LET chosen == FirstNonEmpty(<<key.qApiKey, key.qApi_key, key.xApiKey,
                                  WithoutFirst(key.auth, "Bearer "), e.braveKey>>)
    IN  IF chosen # <<>> THEN chosen ELSE old

C21_Extracts ==
    \A key \in KeyInputs :
        ExtractApiKey(apiKey, KeyRequest(key), env) = KeyAfter(apiKey, key, env)

C21_Step ==
    /\ \A r \in inflight' :
         Arrived(r) =>
             /\ \E key \in KeyInputs : apiKey' = KeyAfter(apiKey, key, env)
             /\ r.pc \in {"connecting", "handling"}
    /\ \A r \in inflight : Progressed(r) => apiKey' = apiKey

\* C21 (amended): the key is the first that is given of query apiKey, query
\* api_key, x-api-key, Authorization with its first occurrence of 'Bearer '
\* removed (wherever it stands), BRAVE_API_KEY; it is stored in the step
\* that receives the request, before resolution and handling, which do not
\* change it; when none is given the key stored before stays in force.
C21_KeyPriority == [](C21_Extracts) /\ [][C21_Step]_vars

C21_Witness ==
    /\ apiKey = <<"Token ", "hdr-key">>
    /\ env.braveKey # <<>>
    /\ nTracked = 2
    /\ \E r \in inflight : r.pc = "connecting"

C22_DurableStep == disk' # disk => disk' = Document(Stringify(analytics'))

C22_ReloadStep ==
    (Started /\ proc = "killed") =>
        /\ IsDocument(disk)
        /\ analytics' = Parse(disk.doc)
        /\ analytics'.totalRequests <= analytics.totalRequests
        /\ analytics'.totalToolCalls <= analytics.totalToolCalls

\* C22 as stated: the file changes only by a successful persist, to the
\* snapshot in memory at that moment, so that a restart after a kill loads
\* the snapshot of the last successful persist, whose totals are at most
\* those in memory when the process was killed.
C22_DurableIsLastPersist == [][C22_DurableStep /\ C22_ReloadStep]_vars

\* the tool-call part of the snapshot
ToolCallPart(a) == <<a.totalToolCalls, a.toolCalls, a.recentToolCalls>>

C23_Step ==
    /\ \A r \in inflight' :
         Arrived(r) =>
             /\ r.pc \in {"connecting", "handling"}
             /\ IF r.body.present /\ r.body.method = "tools/call" /\ r.body.name # ""
                THEN /\ analytics'.totalToolCalls = analytics.totalToolCalls + 1
                     /\ \A tool \in DOMAIN analytics'.toolCalls \cup DOMAIN analytics.toolCalls :
                          Get(analytics'.toolCalls, tool)
                            = Get(analytics.toolCalls, tool)
                                + (IF tool = r.body.name THEN 1 ELSE 0)
                     /\ Len(analytics'.recentToolCalls)
                          = Min(Len(analytics.recentToolCalls) + 1, MAX_RECENT_CALLS)
                     /\ Head(analytics'.recentToolCalls).tool = r.body.name
                     /\ Tail(analytics'.recentToolCalls)
                          = SubSeq(analytics.recentToolCalls, 1,
                                   Len(analytics'.recentToolCalls) - 1)
                ELSE ToolCallPart(analytics') = ToolCallPart(analytics)
    /\ \A r \in inflight :
         Progressed(r) => ToolCallPart(analytics') = ToolCallPart(analytics)

\* C23: a /mcp request records a tool call if and only if its body has
\* method 'tools/call' and a name in its parameters; then exactly one call
\* is recorded, under that name, in the step that receives the request,
\* before the handler is connected or invoked; any other /mcp request, and
\* the later handling of every request, leaves totalToolCalls, toolCalls and
\* recentToolCalls unchanged.
C23_ToolCallIffNamedCall == [][C23_Step]_vars

C23_Witness ==
    /\ analytics.totalRequests = 3
    /\ analytics.totalToolCalls = 1
    /\ Get(analytics.toolCalls, "brave_news_search") = 1
    /\ \E r \in inflight : r.body = NamedListTools

C24_Step ==
    /\ \A r \in inflight' :
         (Arrived(r) /\ r.hdr # NoSession /\ r.hdr \notin DOMAIN transports) =>
             /\ r.branch = 3
             /\ r.pc = "connecting"
             /\ r.handler \notin DOMAIN handlers
             /\ r.handler \notin Range(transports)
             /\ r.handler \in DOMAIN handlers'
             /\ handlers'[r.handler].stateful
             /\ transports' = transports
    /\ \A r \in inflight :
         (Progressed(r) /\ r.branch = 3 /\ r.hdr # NoSession) =>
             r.hdr \notin DOMAIN transports' \ DOMAIN transports

\* C24: a request whose session header is not a registered sessionId gets,
\* for any body (the discovery shape included), a newly constructed handler
\* with a sessionId generator from the third branch, never the stateless
\* handler and never a registered one; resolving it leaves the registry
\* unchanged and the header value never becomes a key of the registry.
C24_StaleHeaderGetsNewHandler == [](StaleSession \notin DOMAIN transports) /\ [][C24_Step]_vars

C24_Witness ==
    /\ transports # EmptyMap
    /\ \E r \in inflight :
         /\ r.hdr = StaleSession
         /\ IsListToolsRequest(r.body)
         /\ r.branch = 3
         /\ r.pc = "handling"
         /\ handlers[r.handler].stateful

C25_RegisteredConnected ==
    \A id \in DOMAIN transports :
        /\ transports[id] \in DOMAIN handlers
        /\ handlers[transports[id]].connected

C25_Step ==
    /\ \A id \in DOMAIN transports' \ DOMAIN transports :
         /\ transports'[id] \in DOMAIN handlers
         /\ handlers[transports'[id]].connected
    /\ \A r \in inflight' :
         (Arrived(r) /\ r.branch = 1) => handlers[r.handler].connected

\* C25: a handler is put in the registry only when its connect has
\* completed: every registered handler is connected, it was already
\* connected in the state before the step that registers it, and a request
\* that overlaps with others and finds its sessionId in the registry gets a
\* connected handler.
C25_RegisteredAfterConnect == [](C25_RegisteredConnected) /\ [][C25_Step]_vars

C25_Witness ==
    /\ transports # EmptyMap
    /\ \E r1, r2 \in inflight :
         /\ r1.branch = 1 /\ r1.pc = "handling"
         /\ r2.branch = 3 /\ r2.pc = "connecting"
         /\ ~handlers[r2.handler].connected

C26_Step ==
    (now' # now /\ resp'.ep = "/analytics/import") =>
        /\ analytics'.recentToolCalls = analytics.recentToolCalls
        /\ analytics'.clientsByIp = analytics.clientsByIp
        /\ analytics'.clientsByUserAgent = analytics.clientsByUserAgent
        /\ analytics'.hourlyRequests = analytics.hourlyRequests
        /\ analytics'.serverStartTime = analytics.serverStartTime
        /\ transports' = transports
        /\ handlers' = handlers
        /\ inflight' = inflight

\* C26: an import request leaves recentToolCalls, clientsByIp,
\* clientsByUserAgent, hourlyRequests and serverStartTime as they were, and
\* leaves the session registry, the handlers and the requests in flight as
\* they were.
C26_ImportFrame == [][C26_Step]_vars

C26_Witness ==
    /\ resp.ep = "/analytics/import" /\ resp.status = 200
    /\ transports # EmptyMap
    /\ inflight # {}
    /\ analytics.recentToolCalls # <<>>
    /\ analytics.totalRequests > SumMap(analytics.clientsByIp)

C27_TimerStaysArmed == proc = "running" => timerActive

C27_ImportAnswers ==
    \A o \in SaveOutcomes :
        LET saved == ImportRoute(analytics, disk, env, "secret", ToolsOnlyData, "ok")
            r     == ImportRoute(analytics, disk, env, "secret", ToolsOnlyData, o)
        IN  /\ r.status = 200 /\ r.body = saved.body
            /\ r.analytics = saved.analytics

C27_Step ==
    /\ (disk' # disk /\ ~IsDocument(disk')) =>
           /\ timerActive' = timerActive
           /\ proc' = (IF proc = "cancelled" THEN "flushed" ELSE "running")
           /\ \/ analytics' = analytics
              \/ analytics' = MergeImport(analytics, ToolsOnlyData)
           /\ transports' = transports /\ handlers' = handlers /\ inflight' = inflight
    /\ (proc = "cancelled" /\ proc' # proc) =>
           /\ proc' = "flushed"
           /\ analytics' = analytics

\* C27: a save that fails is not fatal: the interval stays armed as long as
\* the process runs, an import answers the same with the same merged
\* snapshot whether its save succeeds or not, the step of a torn write
\* leaves the process running (or going on with its shutdown), the snapshot
\* in memory, the registry and the requests in flight as they were, and the
\* shutdown goes on to exit after a failed final save.
C27_FailedSaveNotFatal ==
    [](C27_TimerStaysArmed /\ C27_ImportAnswers) /\ [][C27_Step]_vars

C27_Witness ==
    /\ proc = "running" /\ timerActive
    /\ ~pristine
    /\ disk = Corrupt
    /\ \E r \in inflight : r.pc = "handling"

\* counter `new` is `old` where the body has no such section
KeptWithoutSection(old, new, section) == ~section.present => new = old

C28_Sections ==
    \A data \in ImportDatas, o \in SaveOutcomes :
        LET r == ImportRoute(analytics, disk, env, env.importKey, data, o)
        IN  IF data.present
            THEN /\ r.status = 200
                 /\ ~data.summary.present =>
                        /\ r.analytics.totalRequests = analytics.totalRequests
                        /\ r.analytics.totalToolCalls = analytics.totalToolCalls
                 /\ data.summary.present =>
                        /\ r.analytics.totalRequests
                             = analytics.totalRequests + data.summary.totalRequests
                        /\ r.analytics.totalToolCalls
                             = analytics.totalToolCalls + data.summary.totalToolCalls
                 /\ KeptWithoutSection(analytics.requestsByMethod,
                                       r.analytics.requestsByMethod, data.byMethod)
                 /\ KeptWithoutSection(analytics.requestsByEndpoint,
                                       r.analytics.requestsByEndpoint, data.byEndpoint)
                 /\ KeptWithoutSection(analytics.toolCalls, r.analytics.toolCalls, data.byTool)
                 /\ AddedPerKey(analytics.requestsByMethod,
                                r.analytics.requestsByMethod, data.byMethod)
                 /\ AddedPerKey(analytics.requestsByEndpoint,
                                r.analytics.requestsByEndpoint, data.byEndpoint)
                 /\ AddedPerKey(analytics.toolCalls, r.analytics.toolCalls, data.byTool)
            ELSE /\ r.status = 400
                 /\ r.body.error = "Failed to import analytics"
                 /\ r.body.details # ""
                 /\ r.analytics = analytics
                 /\ r.disk = disk

C28_Step ==
    /\ Imported(400) =>
           /\ resp'.body.details # ""
           /\ analytics' = analytics
           /\ disk' = disk
    /\ Imported(200) =>
           \E data \in ImportDatas : AddedImport(analytics, analytics', data)

\* C28: an import whose body lacks summary, byMethod, byEndpoint or byTool
\* is accepted, adds the sections it has and leaves the counters of the
\* sections it lacks as they were; an import whose processing fails is
\* answered 400 with the error's text, and nothing is undone: the failure
\* comes before the first section is merged, so the snapshot and the file
\* are as they were.
C28_SectionBySection == [](C28_Sections) /\ [][C28_Step]_vars

C28_Witness ==
    /\ resp.ep = "/analytics/import" /\ resp.status = 400
    /\ Get(analytics.requestsByMethod, "GET") = 1
    /\ Get(analytics.toolCalls, "brave_news_search") = 1
    /\ analytics.totalRequests = 0
    /\ analytics.totalToolCalls = 0

\* the totals of snapshot a are the sums of its counters
SumsAgree(a) ==
    /\ a.totalRequests = SumMap(a.requestsByMethod)
    /\ a.totalRequests = SumMap(a.requestsByEndpoint)
    /\ a.totalRequests = SumMap(a.clientsByIp)
    /\ a.totalRequests = SumMap(a.clientsByUserAgent)
    /\ a.totalRequests = SumMap(a.hourlyRequests)
    /\ a.totalToolCalls = SumMap(a.toolCalls)

\* C29 as stated: from a fresh snapshot and without import, in every state
\* and in every saved file, totalRequests is the sum of the values of each
\* of requestsByMethod, requestsByEndpoint, clientsByIp, clientsByUserAgent
\* and hourlyRequests, and totalToolCalls is the sum of the values of
\* toolCalls.
C29_TotalsAreSums ==
    pristine =>
        /\ SumsAgree(analytics)
        /\ IsDocument(disk) => SumsAgree(Parse(disk.doc))

C30_Entries ==
    /\ \A id \in DOMAIN transports :
         /\ transports[id] \in DOMAIN handlers
         /\ handlers[transports[id]].stateful
         /\ handlers[transports[id]].initialized
         /\ handlers[transports[id]].sessionId = id
    /\ \A id1, id2 \in DOMAIN transports :
         transports[id1] = transports[id2] => id1 = id2

C30_Step ==
    /\ \A r \in inflight' : Arrived(r) => transports' = transports
    /\ transports' # transports =>
         \E r \in inflight, id \in DOMAIN transports' \ DOMAIN transports :
             /\ Progressed(r) /\ r.pc = "handling"
             /\ IsInitialize(r.body)
             /\ handlers[r.handler].stateful
             /\ ~handlers[r.handler].initialized
             /\ r.handler \notin Range(transports)
             /\ transports' = transports @@ (id :> r.handler)
             /\ handlers'[r.handler].sessionId = id
    /\ \A r \in inflight :
         (Progressed(r) /\ r.branch = 3 /\ ~IsInitialize(r.body)) =>
             /\ transports' = transports
             /\ r.handler \notin Range(transports')

\* C30: resolving a request never changes the registry; the registry
\* changes only when a request that is being handled is an initialization
\* request on a handler that was not initialized, and then by the one pair
\* of the sessionId generated in that step and that handler; every entry is
\* such a pair; a handler created for a request that is not an
\* initialization request is not registered; and no handler is registered
\* under two sessionIds.
C30_RegisteredByInitializationOnly == [](C30_Entries) /\ [][C30_Step]_vars

C30_Witness ==
    /\ Cardinality(DOMAIN transports) = 1
    /\ resp.ep = "/mcp" /\ resp.status = 400
    /\ \E r \in inflight :
         /\ r.branch = 1 /\ IsInitialize(r.body) /\ r.pc = "handling"
         /\ handlers[r.handler].initialized

\* r is a request for which the third branch constructed a handler
Creating(r) == r.branch = 3

C31_OwnHandlers ==
    /\ \A r1, r2 \in inflight :
         (Creating(r1) /\ Creating(r2) /\ r1 # r2) => r1.handler # r2.handler
    /\ \A r \in inflight :
         Creating(r) =>
             /\ r.handler \in DOMAIN handlers
             /\ r.handler \notin Range(transports)
    /\ \A id1, id2 \in DOMAIN transports :
         id1 # id2 => transports[id1] # transports[id2]

C31_Step ==
    /\ \A id \in DOMAIN transports :
         id \in DOMAIN transports' /\ transports'[id] = transports[id]
    /\ \A r \in inflight' :
         (Arrived(r) /\ Creating(r)) =>
             /\ r.handler \notin DOMAIN handlers
             /\ \A q \in inflight : q.handler # r.handler
    /\ \A r \in inflight :
         (Progressed(r) /\ r.pc = "handling" /\ Creating(r) /\ IsInitialize(r.body)
            /\ resp'.status = 200) =>
             \E id \in DOMAIN transports' \ DOMAIN transports :
                 /\ transports'[id] = r.handler
                 /\ handlers'[r.handler].sessionId = id

\* C31: requests that create sessions at the same time, however their
\* connect and initialization steps interleave, each get a handler of their
\* own that no other request in flight and no registry entry refers to;
\* each one that is initialized is registered under a sessionId that was
\* not in the registry; and every entry that was in the registry stays, with
\* the same handler.
C31_ConcurrentSessionsApart == [](C31_OwnHandlers) /\ [][C31_Step]_vars

C31_Witness ==
    /\ Cardinality(DOMAIN transports) = 1
    /\ \E r1, r2 \in inflight :
         /\ Creating(r1) /\ IsInitialize(r1.body) /\ r1.pc = "handling"
         /\ Creating(r2) /\ IsInitialize(r2.body) /\ r2.pc = "connecting"
         /\ r1.handler # r2.handler

C32_Step ==
    /\ \A r \in inflight' :
         Arrived(r) =>
             /\ r.supplied # <<>> => apiKey' = r.supplied
             /\ r.supplied = <<>> => apiKey' = apiKey
             /\ r.pc \in {"connecting", "handling"}
    /\ apiKey' # apiKey =>
         \E r \in inflight' : Arrived(r) /\ r.supplied # <<>> /\ r.supplied = apiKey'
    /\ \A r \in inflight : Progressed(r) => apiKey' = apiKey

\* C32: there is one API key for the whole process; the step that receives
\* a /mcp request replaces it when the request or the environment gives a
\* non-empty key and leaves it as it was otherwise, so that a request
\* without key is resolved and handled under the key of the latest request
\* that gave one; connecting and handling never change it, and nothing ties
\* the key to the request that set it: while a request is in flight the key
\* can be the one of a request that arrived after it.
C32_OneKeyForAll == [][C32_Step]_vars

C32_Witness ==
    /\ env.braveKey = <<>>
    /\ \E r1, r2 \in inflight :
         /\ r1.id < r2.id
         /\ r1.supplied = <<"q-key">> /\ r1.pc = "handling"
         /\ r2.supplied = <<"x-key">>
         /\ apiKey = <<"x-key">>

C33_SavedAtOnce ==
    \A key \in ImportKeys, data \in ImportDatas :
        LET r == ImportRoute(analytics, disk, env, key, data, "ok")
        IN  r.status = 200 =>
                /\ r.disk = Document(Stringify(r.analytics))
                /\ Parse(r.disk.doc) = r.analytics

C33_Step ==
    /\ (now' # now /\ resp'.ep = "/analytics/import") =>
           /\ nTracked' = nTracked
           /\ analytics'.clientsByIp = analytics.clientsByIp
           /\ analytics'.clientsByUserAgent = analytics.clientsByUserAgent
           /\ analytics'.hourlyRequests = analytics.hourlyRequests
           /\ resp'.status # 200 => analytics' = analytics
    /\ Imported(200) =>
           /\ \E data \in ImportDatas :
                /\ data.present
                /\ analytics'.totalRequests
                     = analytics.totalRequests
                         + (IF data.summary.present THEN data.summary.totalRequests ELSE 0)
                /\ AddedPerKey(analytics.requestsByMethod, analytics'.requestsByMethod,
                               data.byMethod)
                /\ AddedPerKey(analytics.requestsByEndpoint, analytics'.requestsByEndpoint,
                               data.byEndpoint)
           /\ \/ disk' = Document(Stringify(analytics'))
              \/ disk' = disk
              \/ disk' = Corrupt

\* C33: the import request is not counted: it adds no arrival, nothing to
\* clientsByIp, clientsByUserAgent and hourlyRequests, and to totalRequests,
\* requestsByMethod and requestsByEndpoint only what its body says; and it
\* saves in the same step, before it answers: with a write that succeeds the
\* file is the merged snapshot, which reads back as that snapshot; otherwise
\* the file is as it was or torn.
C33_ImportUntrackedAndSaved == [](C33_SavedAtOnce) /\ [][C33_Step]_vars

C33_Witness ==
    /\ resp.ep = "/analytics/import" /\ resp.status = 200
    /\ nTracked = 1
    /\ analytics.totalRequests = 3
    /\ Get(analytics.requestsByMethod, "POST") = 2
    /\ Get(analytics.requestsByEndpoint, "/analytics/import") = 0
    /\ SumMap(analytics.clientsByIp) = 1
    /\ disk = Document(Stringify(analytics))

=============================================================================
